---- MODULE Spec2Model ----
(***************************************************************************)
(* State-machine model of src/assistant_bot.py: a Telegram relay bot that  *)
(* keeps a bounded per-chat conversation history, forwards it to a         *)
(* completion service and relays the answer.                               *)
(*                                                                         *)
(* The model follows the program's control flow: module import (secret     *)
(* validation), main() building the Application, the update queue of the   *)
(* framework, and one action per handler segment between two awaits.       *)
(***************************************************************************)
EXTENDS Integers, Sequences, FiniteSets, TLC

\* ---------------------------------------------------------------- bounds
\* Number of inbound updates the platform delivers in one behaviour.
MaxUpdates == 2
\* Largest value of CONFIG["MAX_HISTORY"] the model ranges over (0..MaxWindow).
MaxWindow == 4

\* Number of appends and resets in one behaviour of StoreSpec.
MaxOps == 5

\* ---------------------------------------------------------------- inputs
\* Telegram chat ids: 42 is the private chat of user 42, -100 a group chat.
Chats == {42, -100}
Users == {42, 7}
Kinds == {"start", "help", "clear", "text"}
\* The inbound updates: <<kind, chat_id, from_user.id>>. Only handle_message
\* reads from_user, so the commands are drawn with one sender; start and
\* help_command read neither the sender nor the chat, so they are drawn with
\* one chat.
Inputs ==
    {u \in Kinds \X Chats \X Users :
        /\ u[1] = "text" \/ u[3] = 42
        /\ u[1] \in {"text", "clear"} \/ u[2] = 42}
\* Values the three environment variables can take: "None" is an unset
\* variable, "abc" a non-numeric ADMIN_USER_ID.
TokenValues == {"None", "token"}
KeyValues == {"None", "key"}
AdminValues == {"None", "0", "42", "abc"}

VARIABLES
    phase,          \* "import" | "running" | "exited": position of the process
    env,            \* the environment variables read at import
    CONFIG,         \* the CONFIG dict entries the handlers read
    conversations,  \* chat_id -> history (list of turns); DOMAIN = chats with an entry
    updates,        \* sequence of the updates received so far (index = update id)
    update_queue,   \* ids of the updates waiting in Application.update_queue
    tasks,          \* update id -> state of the handler coroutine dispatched for it
    log,            \* chat_id -> sequence of the store mutations performed on it
    outbox,         \* set of messages the platform accepted
    requests        \* update id -> message list handed to the completion client

vars == <<phase, env, CONFIG, conversations, updates, update_queue, tasks,
          log, outbox, requests>>

\* ---------------------------------------------------------------- contents
\* Text values are pairs <<tag, n>> so that all contents are comparable.
SYSTEM_PROMPT == <<"prompt", 0>>
WELCOME_MESSAGE == <<"welcome", 0>>
HELP_MESSAGE(max_history) == <<"help", max_history>>
CLEARED_MESSAGE == <<"cleared", 0>>
FALLBACK_MESSAGE == <<"fallback", 0>>
NoText == <<"none", 0>>
\* The text of update id, the completion returned for update id, and the
\* error summary of update id: opaque, pairwise distinct tokens.
MessageText(id) == <<"text", id>>
CompletionText(id) == <<"completion", id>>
ErrorText(id) == <<"error", id>>

Turn(role, content) == [role |-> role, content |-> content]
SystemTurn == Turn("system", SYSTEM_PROMPT)

\* ---------------------------------------------------------------- startup
\* int(os.getenv("ADMIN_USER_ID", 0)): -1 stands for the ValueError int()
\* raises on a non-numeric string.
IntOf(s) ==
    CASE s = "None" -> 0
      [] s = "0" -> 0
      [] s = "42" -> 42
      [] OTHER -> -1

ADMIN_USER_ID == IntOf(env.ADMIN_USER_ID)

\* Variant of SecretsMissing that forgets the administrator identity.
SecretsMissing_without_admin ==
    \/ env.TELEGRAM_BOT_TOKEN = "None"
    \/ env.OPENAI_API_KEY = "None"

\* not TELEGRAM_TOKEN or not OPENAI_API_KEY or not ADMIN_USER_ID
SecretsMissing ==
    \/ env.TELEGRAM_BOT_TOKEN = "None"
    \/ env.OPENAI_API_KEY = "None"
    \/ ADMIN_USER_ID = 0

\* ---------------------------------------------------------------- history store
\* Python's s[k:] for an integer k (a negative k counts from the end, and
\* -0 is 0, so s[-0:] is the whole list).
PyTail(s, k) ==
    LET n == Len(s)
        from == IF k < 0 THEN (IF n + k < 0 THEN 0 ELSE n + k)
                         ELSE (IF k > n THEN n ELSE k)
    IN SubSeq(s, from + 1, n)

\* Variant of get_conversation_history without the membership test: every
\* call seeds the entry.
get_always_seeds(convs, chat_id) ==
    [c \in DOMAIN convs \cup {chat_id} |->
        IF c = chat_id THEN <<SystemTurn>> ELSE convs[c]]

\* The store after get_conversation_history(chat_id); the value returned is
\* the entry of chat_id in that store.
get_conversation_history(convs, chat_id) ==
    IF chat_id \in DOMAIN convs
    THEN convs
    ELSE convs @@ (chat_id :> <<SystemTurn>>)

\* Variant of Trim with the slice one element too long.
Trim_keeps_one_more(history, max_history) ==
    <<history[1]>> \o PyTail(history, -(max_history + 1))

\* Variant of Trim that keeps the oldest turns instead of the newest.
Trim_keeps_oldest(history, max_history) ==
    <<history[1]>> \o SubSeq(history, 2, max_history + 1)

\* The trimmed list of line 85: [history[0]] + history[-MAX_HISTORY:].
Trim(history, max_history) ==
    <<history[1]>> \o PyTail(history, -max_history)

\* Variant of update_conversation_history in which get_conversation_history
\* returns a copy of the list: the append reaches the store only when the
\* trim rebinds the entry.
update_on_a_copy(convs, chat_id, role, content) ==
    LET seeded == get_conversation_history(convs, chat_id)
        history == Append(seeded[chat_id], Turn(role, content))
    IN IF Len(history) > CONFIG.MAX_HISTORY + 1
       THEN [seeded EXCEPT ![chat_id] =
                <<history[1]>> \o PyTail(history, -CONFIG.MAX_HISTORY)]
       ELSE seeded

\* The store after update_conversation_history(chat_id, role, content).
update_conversation_history(convs, chat_id, role, content) ==
    LET seeded == get_conversation_history(convs, chat_id)
        history == Append(seeded[chat_id], Turn(role, content))
    IN IF Len(history) > CONFIG.MAX_HISTORY + 1
       THEN [seeded EXCEPT ![chat_id] = Trim(history, CONFIG.MAX_HISTORY)]
       ELSE [seeded EXCEPT ![chat_id] = history]

\* Variant of clear_conversation_history that resets every chat's history.
clear_resets_every_chat(convs, chat_id) ==
    [c \in DOMAIN convs \cup {chat_id} |-> <<SystemTurn>>]

\* Variant of clear_conversation_history that resets to an empty list.
clear_to_empty_list(convs, chat_id) ==
    IF chat_id \in DOMAIN convs
    THEN [convs EXCEPT ![chat_id] = <<>>]
    ELSE convs @@ (chat_id :> <<>>)

\* The store after clear_conversation_history(chat_id).
clear_conversation_history(convs, chat_id) ==
    IF chat_id \in DOMAIN convs
    THEN [convs EXCEPT ![chat_id] = <<SystemTurn>>]
    ELSE convs @@ (chat_id :> <<SystemTurn>>)

\* ---------------------------------------------------------------- store log
\* log records, per chat, the store mutations in the order they happen:
\* "seed" (get_conversation_history created the entry), "append", "reset".
Event(op, id, turn) == [op |-> op, id |-> id, turn |-> turn]

LogUpdate(lg, convs, chat_id, id, role, content) ==
    LET seed == IF chat_id \in DOMAIN convs THEN <<>>
                ELSE <<Event("seed", id, SystemTurn)>>
    IN [lg EXCEPT ![chat_id] =
            (@ \o seed) \o <<Event("append", id, Turn(role, content))>>]

LogClear(lg, chat_id, id) ==
    [lg EXCEPT ![chat_id] = Append(@, Event("reset", id, SystemTurn))]

\* ---------------------------------------------------------------- completion client
\* Variant of generate_ai_response without the except clause.
generate_reraises(convs, outcome, id) ==
    IF outcome = "ok"
    THEN [raised |-> FALSE, value |-> CompletionText(id), convs |-> convs]
    ELSE [raised |-> TRUE, value |-> NoText, convs |-> convs]

\* generate_ai_response: outcome is what the awaited create() call does,
\* "ok" (returns a completion) or "error" (raises, or answers with a response
\* that has no first choice). The result says whether an exception leaves
\* the function, which text it returns, and the store it leaves behind (the
\* function never touches conversations).
generate_ai_response(convs, outcome, id) ==
    IF outcome = "ok"
    THEN [raised |-> FALSE, value |-> CompletionText(id), convs |-> convs]
    ELSE [raised |-> FALSE, value |-> FALLBACK_MESSAGE, convs |-> convs]

\* ---------------------------------------------------------------- dispatch
\* A handler coroutine: pc is the await it is suspended at ("typing":
\* send_chat_action, "generating": the completion call, "hung": a completion
\* call that never answers, "replying": reply_text, "notifying": the error
\* handler's send_message) or "done".
NewTask ==
    [pc |-> "done", reply |-> NoText, ai_response |-> NoText,
     provider |-> "none", typing |-> "none", result |-> "none", attempts |-> 0]

\* Handler coroutines that have been started and have not returned.
Running == {id \in DOMAIN tasks : tasks[id].pc # "done"}

\* Variant of concurrent_updates: the Application built with
\* concurrent_updates(True), every update handled in a task of its own.
concurrent_updates_on == TRUE

\* Application.builder().token(...).build() leaves concurrent_updates off and
\* every handler is added with the default block=True: the update fetcher
\* awaits the handler (and the error handler) of one update before it takes
\* the next update from the queue.
concurrent_updates == FALSE

CanDispatch == concurrent_updates \/ Running = {}

\* The update the fetcher takes next.
IsNext(id) ==
    /\ phase = "running"
    /\ update_queue # <<>>
    /\ id = Head(update_queue)
    /\ CanDispatch

\* Variant of Ignored with "or" for "and".
Ignored_with_or(user_id) ==
    ~CONFIG.RESPONDING_TO_OTHERS \/ user_id # ADMIN_USER_ID

\* Line 131: not CONFIG["RESPONDING_TO_OTHERS"] and user_id != ADMIN_USER_ID
Ignored(user_id) ==
    ~CONFIG.RESPONDING_TO_OTHERS /\ user_id # ADMIN_USER_ID

Sent(chat_id, text, id) == [chat_id |-> chat_id, text |-> text, id |-> id]

\* Variant of error_handler that does not read ERROR_NOTIFICATIONS.
error_handler_ignores_flag(task, why) ==
    [task EXCEPT !.pc = "notifying", !.result = why, !.attempts = @ + 1]

\* error_handler() up to its await, entered when an exception leaves a
\* handler: it logs, and if ERROR_NOTIFICATIONS is set it requests the
\* message to the administrator; otherwise it returns. why is the failure.
error_handler(task, why) ==
    IF CONFIG.ERROR_NOTIFICATIONS
    THEN [task EXCEPT !.pc = "notifying", !.result = why, !.attempts = @ + 1]
    ELSE [task EXCEPT !.pc = "done", !.result = why]

\* ---------------------------------------------------------------- actions
\* The state when the module is imported. The environment and the three
\* CONFIG entries the handlers branch on range over their possible values
\* (the source sets MAX_HISTORY 10 and both flags True).
Init ==
    /\ phase = "import"
    /\ env \in [TELEGRAM_BOT_TOKEN : TokenValues, OPENAI_API_KEY : KeyValues,
                ADMIN_USER_ID : AdminValues]
    /\ CONFIG \in [MAX_HISTORY : 0..MaxWindow, RESPONDING_TO_OTHERS : BOOLEAN,
                   ERROR_NOTIFICATIONS : BOOLEAN]
    /\ conversations = <<>>
    /\ updates = <<>>
    /\ update_queue = <<>>
    /\ tasks = <<>>
    /\ log = [c \in Chats |-> <<>>]
    /\ outbox = {}
    /\ requests = <<>>

\* Module import (lines 20-29) and main(): int() raises on a non-numeric
\* ADMIN_USER_ID, line 29 raises on a missing secret; otherwise main()
\* registers the handlers and starts polling.
Startup ==
    /\ phase = "import"
    /\ phase' = IF ADMIN_USER_ID < 0 \/ SecretsMissing THEN "exited" ELSE "running"
    /\ UNCHANGED <<env, CONFIG, conversations, updates, update_queue, tasks,
                   log, outbox, requests>>

\* The platform delivers an update; the updater puts it on the update queue.
Receive ==
    /\ phase = "running"
    /\ Len(updates) < MaxUpdates
    /\ \E u \in Inputs :
         LET id == Len(updates) + 1
         IN /\ updates' = Append(updates,
                    [kind |-> u[1], chat_id |-> u[2], user_id |-> u[3],
                     text |-> IF u[1] = "text" THEN MessageText(id) ELSE NoText])
            /\ update_queue' = Append(update_queue, id)
    /\ UNCHANGED <<phase, env, CONFIG, conversations, tasks, log, outbox, requests>>

\* start(): awaits reply_text(WELCOME_MESSAGE).
start(id) ==
    /\ IsNext(id)
    /\ updates[id].kind = "start"
    /\ update_queue' = Tail(update_queue)
    /\ tasks' = tasks @@ (id :> [NewTask EXCEPT !.pc = "replying",
                                                !.reply = WELCOME_MESSAGE])
    /\ UNCHANGED <<phase, env, CONFIG, conversations, updates, log, outbox, requests>>

\* Variant of help_command that looks the chat's history up before replying.
help_reads_history(id) ==
    /\ IsNext(id)
    /\ updates[id].kind = "help"
    /\ update_queue' = Tail(update_queue)
    /\ conversations' = get_conversation_history(conversations, updates[id].chat_id)
    /\ tasks' = tasks @@ (id :> [NewTask EXCEPT !.pc = "replying",
                                   !.reply = HELP_MESSAGE(CONFIG.MAX_HISTORY)])
    /\ UNCHANGED <<phase, env, CONFIG, updates, log, outbox, requests>>

\* help_command(): formats the help text and awaits reply_text.
help_command(id) ==
    /\ IsNext(id)
    /\ updates[id].kind = "help"
    /\ update_queue' = Tail(update_queue)
    /\ tasks' = tasks @@ (id :> [NewTask EXCEPT !.pc = "replying",
                                   !.reply = HELP_MESSAGE(CONFIG.MAX_HISTORY)])
    /\ UNCHANGED <<phase, env, CONFIG, conversations, updates, log, outbox, requests>>

\* clear_command(): resets the chat's history, then awaits reply_text.
clear_command(id) ==
    /\ IsNext(id)
    /\ updates[id].kind = "clear"
    /\ update_queue' = Tail(update_queue)
    /\ conversations' = clear_conversation_history(conversations, updates[id].chat_id)
    /\ log' = LogClear(log, updates[id].chat_id, id)
    /\ tasks' = tasks @@ (id :> [NewTask EXCEPT !.pc = "replying",
                                                !.reply = CLEARED_MESSAGE])
    /\ UNCHANGED <<phase, env, CONFIG, updates, outbox, requests>>

\* handle_message() up to its first await (lines 126-135): the admin gate,
\* then the typing indicator is requested.
handle_message(id) ==
    /\ IsNext(id)
    /\ updates[id].kind = "text"
    /\ update_queue' = Tail(update_queue)
    /\ tasks' = tasks @@ (id :>
            IF Ignored(updates[id].user_id)
            THEN [NewTask EXCEPT !.pc = "done", !.result = "dropped"]
            ELSE [NewTask EXCEPT !.pc = "typing"])
    /\ UNCHANGED <<phase, env, CONFIG, conversations, updates, log, outbox, requests>>

\* Variant of SendChatActionOk with lines 138 and 141 exchanged: the history
\* for the completion call is read before the user turn is appended.
SendChatActionOk_reads_before_append(id) ==
    /\ id \in DOMAIN tasks
    /\ tasks[id].pc = "typing"
    /\ LET chat_id == updates[id].chat_id
       IN /\ conversations' = update_conversation_history(
                                  conversations, chat_id, "user", updates[id].text)
          /\ log' = LogUpdate(log, conversations, chat_id, id, "user", updates[id].text)
          /\ requests' = requests @@
                (id :> get_conversation_history(conversations, chat_id)[chat_id])
    /\ tasks' = [tasks EXCEPT ![id].pc = "generating", ![id].typing = "ok"]
    /\ UNCHANGED <<phase, env, CONFIG, updates, update_queue, outbox>>

\* send_chat_action returned: lines 138-142, the user turn is appended, the
\* history is read back and the completion call is issued.
SendChatActionOk(id) ==
    /\ id \in DOMAIN tasks
    /\ tasks[id].pc = "typing"
    /\ LET chat_id == updates[id].chat_id
       IN /\ conversations' = update_conversation_history(
                                  conversations, chat_id, "user", updates[id].text)
          /\ log' = LogUpdate(log, conversations, chat_id, id, "user", updates[id].text)
          /\ requests' = requests @@ (id :> conversations'[chat_id])
    /\ tasks' = [tasks EXCEPT ![id].pc = "generating", ![id].typing = "ok"]
    /\ UNCHANGED <<phase, env, CONFIG, updates, update_queue, outbox>>

\* send_chat_action raised: the exception leaves handle_message and the
\* error handler is entered.
SendChatActionFail(id) ==
    /\ id \in DOMAIN tasks
    /\ tasks[id].pc = "typing"
    /\ tasks' = [tasks EXCEPT ![id] =
                    error_handler([@ EXCEPT !.typing = "failed"], "typing_failed")]
    /\ UNCHANGED <<phase, env, CONFIG, conversations, updates, update_queue,
                   log, outbox, requests>>

\* Variant of Generate without line 145: the reply is sent but the assistant
\* turn is not stored.
Generate_without_assistant_append(id, outcome) ==
    /\ id \in DOMAIN tasks
    /\ tasks[id].pc = "generating"
    /\ LET r == generate_ai_response(conversations, outcome, id)
       IN /\ conversations' = r.convs
          /\ tasks' = [tasks EXCEPT ![id].provider = outcome,
                                    ![id].ai_response = r.value,
                                    ![id].reply = r.value,
                                    ![id].pc = "replying"]
    /\ UNCHANGED <<phase, env, CONFIG, updates, update_queue, log, outbox, requests>>

\* The awaited create() call ends with outcome: generate_ai_response returns
\* and lines 145-146 append the assistant turn and await reply_text; an
\* exception leaving generate_ai_response would enter the error handler.
Generate(id, outcome) ==
    /\ id \in DOMAIN tasks
    /\ tasks[id].pc = "generating"
    /\ LET chat_id == updates[id].chat_id
           r == generate_ai_response(conversations, outcome, id)
       IN IF r.raised
          THEN /\ conversations' = r.convs
               /\ log' = log
               /\ tasks' = [tasks EXCEPT ![id] =
                    error_handler([@ EXCEPT !.provider = outcome], "generate_failed")]
          ELSE /\ conversations' = update_conversation_history(
                                       r.convs, chat_id, "assistant", r.value)
               /\ log' = LogUpdate(log, r.convs, chat_id, id, "assistant", r.value)
               /\ tasks' = [tasks EXCEPT ![id].provider = outcome,
                                         ![id].ai_response = r.value,
                                         ![id].reply = r.value,
                                         ![id].pc = "replying"]
    /\ UNCHANGED <<phase, env, CONFIG, updates, update_queue, outbox, requests>>

CompletionReturns(id) == Generate(id, "ok")

CompletionRaises(id) == Generate(id, "error")

\* The completion service never answers: the coroutine stays suspended at
\* line 97.
CompletionHangs(id) ==
    /\ id \in DOMAIN tasks
    /\ tasks[id].pc = "generating"
    /\ tasks' = [tasks EXCEPT ![id].provider = "hung", ![id].pc = "hung"]
    /\ UNCHANGED <<phase, env, CONFIG, conversations, updates, update_queue,
                   log, outbox, requests>>

\* reply_text returned: the platform accepted the message, the handler returns.
ReplyOk(id) ==
    /\ id \in DOMAIN tasks
    /\ tasks[id].pc = "replying"
    /\ outbox' = outbox \cup {Sent(updates[id].chat_id, tasks[id].reply, id)}
    /\ tasks' = [tasks EXCEPT ![id].pc = "done", ![id].result = "replied"]
    /\ UNCHANGED <<phase, env, CONFIG, conversations, updates, update_queue,
                   log, requests>>

\* reply_text raised: the exception leaves the handler and the error handler
\* is entered.
ReplyFail(id) ==
    /\ id \in DOMAIN tasks
    /\ tasks[id].pc = "replying"
    /\ tasks' = [tasks EXCEPT ![id] = error_handler(@, "reply_failed")]
    /\ UNCHANGED <<phase, env, CONFIG, conversations, updates, update_queue,
                   log, outbox, requests>>

\* The error handler's send_message to the administrator returned.
NotifyOk(id) ==
    /\ id \in DOMAIN tasks
    /\ tasks[id].pc = "notifying"
    /\ outbox' = outbox \cup {Sent(ADMIN_USER_ID, ErrorText(id), id)}
    /\ tasks' = [tasks EXCEPT ![id].pc = "done"]
    /\ UNCHANGED <<phase, env, CONFIG, conversations, updates, update_queue,
                   log, requests>>

\* send_message raised: lines 163-164 log it and the error handler returns.
NotifyFail(id) ==
    /\ id \in DOMAIN tasks
    /\ tasks[id].pc = "notifying"
    /\ tasks' = [tasks EXCEPT ![id].pc = "done"]
    /\ UNCHANGED <<phase, env, CONFIG, conversations, updates, update_queue,
                   log, outbox, requests>>

Ids == 1..MaxUpdates

\* The steps of the program, the platform and the completion service
\* answering; receiving an update and a completion call that hangs are the
\* environment's choice.
Progress ==
    \/ Startup
    \/ \E id \in Ids :
        \/ start(id)
        \/ help_command(id)
        \/ clear_command(id)
        \/ handle_message(id)
        \/ SendChatActionOk(id)
        \/ SendChatActionFail(id)
        \/ CompletionReturns(id)
        \/ CompletionRaises(id)
        \/ ReplyOk(id)
        \/ ReplyFail(id)
        \/ NotifyOk(id)
        \/ NotifyFail(id)

Next ==
    \/ Startup
    \/ Receive
    \/ \E id \in Ids : start(id)
    \/ \E id \in Ids : help_command(id)
    \/ \E id \in Ids : clear_command(id)
    \/ \E id \in Ids : handle_message(id)
    \/ \E id \in Ids : SendChatActionOk(id)
    \/ \E id \in Ids : SendChatActionFail(id)
    \/ \E id \in Ids : CompletionReturns(id)
    \/ \E id \in Ids : CompletionRaises(id)
    \/ \E id \in Ids : CompletionHangs(id)
    \/ \E id \in Ids : ReplyOk(id)
    \/ \E id \in Ids : ReplyFail(id)
    \/ \E id \in Ids : NotifyOk(id)
    \/ \E id \in Ids : NotifyFail(id)

Spec == Init /\ [][Next]_vars

\* The event loop runs every coroutine that can run, and the platform and
\* the completion service answer unless the call hangs.
FairSpec == Spec /\ WF_vars(Progress)

\* ---------------------------------------------------------------- the store alone
\* The three store functions called directly, in any order and with either
\* non-system role: the history store's contract without the handlers.
Roles == {"user", "assistant"}

StoreInit ==
    /\ phase = "running"
    /\ env = [TELEGRAM_BOT_TOKEN |-> "token", OPENAI_API_KEY |-> "key",
              ADMIN_USER_ID |-> "42"]
    /\ CONFIG \in [MAX_HISTORY : 0..MaxWindow, RESPONDING_TO_OTHERS : {TRUE},
                   ERROR_NOTIFICATIONS : {TRUE}]
    /\ conversations = <<>>
    /\ updates = <<>>
    /\ update_queue = <<>>
    /\ tasks = <<>>
    /\ log = [c \in Chats |-> <<>>]
    /\ outbox = {}
    /\ requests = <<>>

NotSeed(e) == e.op # "seed"

\* The appends and resets performed so far.
Mutations == Len(SelectSeq(log[42], NotSeed)) + Len(SelectSeq(log[-100], NotSeed))

StoreGet(chat_id) ==
    /\ conversations' = get_conversation_history(conversations, chat_id)
    /\ log' = IF chat_id \in DOMAIN conversations THEN log
              ELSE [log EXCEPT ![chat_id] = Append(@, Event("seed", 0, SystemTurn))]
    /\ UNCHANGED <<phase, env, CONFIG, updates, update_queue, tasks, outbox, requests>>

StoreAppend(chat_id, role) ==
    /\ Mutations < MaxOps
    /\ LET content == MessageText(Mutations + 1)
       IN /\ conversations' = update_conversation_history(
                                  conversations, chat_id, role, content)
          /\ log' = LogUpdate(log, conversations, chat_id, 0, role, content)
    /\ UNCHANGED <<phase, env, CONFIG, updates, update_queue, tasks, outbox, requests>>

StoreReset(chat_id) ==
    /\ Mutations < MaxOps
    /\ conversations' = clear_conversation_history(conversations, chat_id)
    /\ log' = LogClear(log, chat_id, 0)
    /\ UNCHANGED <<phase, env, CONFIG, updates, update_queue, tasks, outbox, requests>>

StoreNext ==
    \/ \E chat_id \in Chats : StoreGet(chat_id)
    \/ \E chat_id \in Chats, role \in Roles : StoreAppend(chat_id, role)
    \/ \E chat_id \in Chats : StoreReset(chat_id)

StoreSpec == StoreInit /\ [][StoreNext]_vars

\* ---------------------------------------------------------------- reading the log
\* Index of the last "reset" event of chat_id, 0 if there is none.
LastReset(chat_id) ==
    LET at == {i \in 1..Len(log[chat_id]) : log[chat_id][i].op = "reset"}
    IN IF at = {} THEN 0 ELSE CHOOSE i \in at : \A j \in at : j <= i

IsAppend(e) == e.op = "append"

\* The append events of chat_id, and those after its last reset.
Appends(chat_id) == SelectSeq(log[chat_id], IsAppend)

AppendsSinceReset(chat_id) ==
    SelectSeq(SubSeq(log[chat_id], LastReset(chat_id) + 1, Len(log[chat_id])), IsAppend)

TurnsOf(events) == [i \in 1..Len(events) |-> events[i].turn]

LastN(s, n) == SubSeq(s, Len(s) - n + 1, Len(s))

Min(a, b) == IF a <= b THEN a ELSE b

\* ---------------------------------------------------------------- claims

\* C1: for a window W >= 1, the history of every chat has at most W + 1
\* elements in every reachable state.
C1_LengthBound ==
    CONFIG.MAX_HISTORY >= 1 =>
        \A c \in DOMAIN conversations :
            Len(conversations[c]) <= CONFIG.MAX_HISTORY + 1

\* A chat whose handlers appended more than W turns since its last reset and
\* whose history is full.
C1_Witness ==
    /\ CONFIG.MAX_HISTORY >= 1
    /\ \E c \in DOMAIN conversations :
        /\ Len(AppendsSinceReset(c)) > CONFIG.MAX_HISTORY
        /\ Len(conversations[c]) = CONFIG.MAX_HISTORY + 1
        /\ \E id \in DOMAIN tasks : updates[id].chat_id = c

\* C2: every history starts with the system turn holding the configured
\* prompt and holds no other system turn.
C2_PinnedSystemTurn ==
    \A c \in DOMAIN conversations :
        /\ conversations[c][1] = SystemTurn
        /\ \A i \in 2..Len(conversations[c]) : conversations[c][i].role # "system"

\* The statement of C2 restricted to windows W >= 1.
C2_HoldsForPositiveWindow ==
    CONFIG.MAX_HISTORY >= 1 => C2_PinnedSystemTurn

\* C3: for W >= 1 the history is the system turn followed by the most recent
\* min(n, W) of the n turns appended since the seed, in the order appended.
C3_FifoEviction ==
    CONFIG.MAX_HISTORY >= 1 =>
        \A c \in DOMAIN conversations :
            LET appended == TurnsOf(AppendsSinceReset(c))
            IN conversations[c] =
                <<SystemTurn>> \o LastN(appended, Min(Len(appended), CONFIG.MAX_HISTORY))

\* The literal trace: W = 3 and the appends user, assistant, user, assistant,
\* user on the seed leave the system turn and the last three turns.
C3_Witness ==
    /\ CONFIG.MAX_HISTORY = 3
    /\ LastReset(42) = 0
    /\ 42 \in DOMAIN conversations
    /\ LET appended == TurnsOf(Appends(42))
       IN /\ Len(appended) = 5
          /\ [i \in 1..5 |-> appended[i].role] =
                <<"user", "assistant", "user", "assistant", "user">>
          /\ conversations[42] =
                <<SystemTurn, appended[3], appended[4], appended[5]>>

\* The text updates received for chat_id, and the append events update id
\* performed with a role.
TextUpdates(chat_id) ==
    {id \in 1..Len(updates) :
        updates[id].kind = "text" /\ updates[id].chat_id = chat_id}

AppendsBy(id, role) ==
    LET A == Appends(updates[id].chat_id)
    IN {i \in 1..Len(A) : A[i].id = id /\ A[i].turn.role = role}

Replied(id) == id \in DOMAIN tasks /\ tasks[id].result = "replied"

\* C4: the two appends of one freeform flow are adjacent in the order of the
\* append events of its chat: no append of another flow lies between them.
C4_FlowsNotInterleaved ==
    \A c \in Chats :
        LET A == Appends(c)
        IN \A i, j \in 1..Len(A) :
            (i < j /\ A[i].id = A[j].id) => j = i + 1

\* Message 2 was delivered for the chat of message 1 between the user append
\* and the assistant append of message 1, and waits in the queue.
C4_Witness ==
    /\ Len(updates) >= 2
    /\ updates[1].kind = "text" /\ updates[2].kind = "text"
    /\ updates[1].chat_id = updates[2].chat_id
    /\ CONFIG.RESPONDING_TO_OTHERS
    /\ 1 \in DOMAIN tasks /\ tasks[1].pc = "generating"
    /\ update_queue = <<2>>
    /\ Len(Appends(updates[1].chat_id)) = 1

\* C5: no flow appends a role twice, a flow that replied appended its user
\* turn and its assistant turn exactly once, and when all n text messages of
\* a chat were answered, no reset happened and 2n <= W, the history is the
\* system turn followed by all 2n turns.
C5_NoAppendLostOrDuplicated ==
    /\ \A id \in DOMAIN tasks : \A role \in Roles :
        /\ Cardinality(AppendsBy(id, role)) <= 1
        /\ Replied(id) /\ updates[id].kind = "text"
                => Cardinality(AppendsBy(id, role)) = 1
    /\ \A c \in Chats :
        LET n == Cardinality(TextUpdates(c))
        IN (/\ \A id \in TextUpdates(c) : Replied(id)
            /\ LastReset(c) = 0
            /\ n >= 1
            /\ 2 * n <= CONFIG.MAX_HISTORY)
           => /\ Len(Appends(c)) = 2 * n
              /\ conversations[c] = <<SystemTurn>> \o TurnsOf(Appends(c))

\* Two messages of one chat, both answered, with a window that holds all
\* four turns: two user appends and two assistant appends, none evicted.
C5_Witness ==
    /\ CONFIG.MAX_HISTORY = 4
    /\ \E c \in Chats :
        /\ TextUpdates(c) = {1, 2}
        /\ Replied(1) /\ Replied(2)
        /\ LastReset(c) = 0
        /\ Len(Appends(c)) = 4
        /\ Len(conversations[c]) = 5

\* The positions <<chat, index>> of the log events made for update id.
EventsBy(id) ==
    UNION {{<<c, i>> : i \in {j \in 1..Len(log[c]) : log[c][j].id = id}} : c \in Chats}

SentFor(id) == {m \in outbox : m.id = id}

\* C6: when the last mutation of a chat is a reset, get returns exactly the
\* seed sequence and changes nothing; a /clear resets the sending chat, and
\* only it, before it replies with the fixed confirmation.
C6_ResetThenGet ==
    /\ \A c \in Chats :
        (log[c] # <<>> /\ log[c][Len(log[c])].op = "reset")
            => /\ c \in DOMAIN conversations
               /\ get_conversation_history(conversations, c) = conversations
               /\ get_conversation_history(conversations, c)[c] = <<SystemTurn>>
    /\ \A id \in DOMAIN tasks :
        updates[id].kind = "clear"
            => /\ \E i \in 1..Len(log[updates[id].chat_id]) :
                    /\ log[updates[id].chat_id][i].op = "reset"
                    /\ EventsBy(id) = {<<updates[id].chat_id, i>>}
               /\ tasks[id].reply = CLEARED_MESSAGE
               /\ SentFor(id) \subseteq
                    {Sent(updates[id].chat_id, CLEARED_MESSAGE, id),
                     Sent(ADMIN_USER_ID, ErrorText(id), id)}
               /\ Replied(id)
                    => SentFor(id) = {Sent(updates[id].chat_id, CLEARED_MESSAGE, id)}

\* A /clear that reset a chat with earlier appends and was answered.
C6_Witness ==
    \E id \in DOMAIN tasks :
        LET c == updates[id].chat_id
        IN /\ updates[id].kind = "clear"
           /\ Replied(id)
           /\ Appends(c) # <<>>
           /\ log[c][Len(log[c])] = Event("reset", id, SystemTurn)
           /\ conversations[c] = <<SystemTurn>>

\* C7: when the completion call ends, by returning or by raising, no
\* exception reaches handle_message (the flow goes on to its reply), a
\* failed call yields the fallback string, and the store changes by nothing
\* but the assistant append handle_message makes with the returned text.
C7_GenerateFailsSoft ==
    [][\A id \in DOMAIN tasks :
        (tasks[id].pc = "generating" /\ tasks'[id].pc \notin {"generating", "hung"})
            => /\ tasks'[id].pc = "replying"
               /\ tasks'[id].result = "none"
               /\ tasks'[id].attempts = 0
               /\ tasks'[id].provider = "error"
                    => tasks'[id].ai_response = FALLBACK_MESSAGE
               /\ conversations' = update_conversation_history(
                      conversations, updates[id].chat_id, "assistant",
                      tasks'[id].ai_response)]_vars

\* A flow whose completion call failed and that goes on with the fallback.
C7_Witness ==
    \E id \in DOMAIN tasks :
        /\ tasks[id].provider = "error"
        /\ tasks[id].pc = "replying"
        /\ tasks[id].reply = FALLBACK_MESSAGE

\* C8: a freeform message of a non-administrator with the respond-to-others
\* flag off is dropped: it mutates no chat's store entry, issues no
\* completion call, no typing indicator and no reply. Any other freeform
\* message is not dropped, and when it is answered it has made its user
\* append, its completion call, its assistant append and its reply.
C8_AdminGate ==
    \A id \in DOMAIN tasks :
        updates[id].kind = "text" =>
            IF ~CONFIG.RESPONDING_TO_OTHERS /\ updates[id].user_id # ADMIN_USER_ID
            THEN /\ tasks[id].pc = "done" /\ tasks[id].result = "dropped"
                 /\ EventsBy(id) = {}
                 /\ SentFor(id) = {}
                 /\ id \notin DOMAIN requests
                 /\ tasks[id].typing = "none"
            ELSE /\ tasks[id].result # "dropped"
                 /\ Replied(id)
                      => /\ Cardinality(AppendsBy(id, "user")) = 1
                         /\ id \in DOMAIN requests
                         /\ Cardinality(AppendsBy(id, "assistant")) = 1
                         /\ SentFor(id) =
                              {Sent(updates[id].chat_id, tasks[id].ai_response, id)}

\* With the flag off, a non-administrator's message was dropped and the
\* administrator's message was answered.
C8_Witness ==
    /\ ~CONFIG.RESPONDING_TO_OTHERS
    /\ \E id \in DOMAIN tasks :
        /\ updates[id].kind = "text" /\ updates[id].user_id # ADMIN_USER_ID
        /\ tasks[id].result = "dropped"
    /\ \E id \in DOMAIN tasks :
        /\ updates[id].kind = "text" /\ updates[id].user_id = ADMIN_USER_ID
        /\ Replied(id)

Hung(id) == id \in DOMAIN tasks /\ tasks[id].pc = "hung"

\* A freeform message that passes the gate and has been delivered.
Delivered(id) ==
    /\ id <= Len(updates)
    /\ updates[id].kind = "text"
    /\ ~Ignored(updates[id].user_id)

\* The flow of id cannot be expected to reply: one of its own platform calls
\* failed, or a completion call of its own chat hangs.
Excused(id) ==
    /\ id <= Len(updates)
    /\ \/ id \in DOMAIN tasks /\ tasks[id].result \in {"typing_failed", "reply_failed"}
       \/ \E a \in DOMAIN tasks :
            Hung(a) /\ updates[a].chat_id = updates[id].chat_id

\* C9: a delivered freeform message eventually receives its reply, unless a
\* platform call of its own flow fails or a completion call on its own chat
\* hangs: a hung completion call on another chat does not block it.
C9_HungCompletionDoesNotBlockOtherChats ==
    \A id \in Ids : Delivered(id) ~> (Replied(id) \/ Excused(id))

\* C10: a reset of a chat never lies between the user append and the
\* assistant append of a freeform flow on that chat: every reset that
\* follows a flow's user append also follows its assistant append.
C10_NoResetInsideFlow ==
    \A c \in Chats :
        \A i, k \in 1..Len(log[c]) :
            (/\ i < k
             /\ log[c][i].op = "append" /\ log[c][i].turn.role = "user"
             /\ log[c][k].op = "reset")
                => \E j \in (i + 1)..(k - 1) :
                    /\ log[c][j].op = "append"
                    /\ log[c][j].turn.role = "assistant"
                    /\ log[c][j].id = log[c][i].id

\* A /clear was delivered for the chat of a flow that has appended its user
\* turn and awaits the completion; it waits in the queue, no reset was made.
C10_Witness ==
    /\ Len(updates) = 2
    /\ updates[1].kind = "text" /\ updates[2].kind = "clear"
    /\ updates[1].chat_id = updates[2].chat_id
    /\ 1 \in DOMAIN tasks /\ tasks[1].pc = "generating"
    /\ update_queue = <<2>>
    /\ LastReset(updates[1].chat_id) = 0
    /\ conversations[updates[1].chat_id] =
            <<SystemTurn, Turn("user", updates[1].text)>>

\* The updates whose handler coroutine was started or advanced by a step.
Stepped ==
    {id \in DOMAIN tasks' : id \notin DOMAIN tasks \/ tasks'[id] # tasks[id]}

\* The store entry of chat_id, "absent" when it has none.
Entry(convs, chat_id) ==
    IF chat_id \in DOMAIN convs THEN convs[chat_id] ELSE <<"absent">>

\* C11: a step of a handler for chat A (and with it every get, append, trim
\* and reset it makes) leaves the entry of every other chat B as it was,
\* absent or present; a step of no handler leaves the whole store as it was.
C11_ChatsIndependent ==
    [][/\ \A id \in Stepped : \A b \in Chats \ {updates[id].chat_id} :
            Entry(conversations', b) = Entry(conversations, b)
       /\ Stepped = {} => conversations' = conversations]_vars

\* Message 1 was appended to its chat and a /clear then reset another chat:
\* the history of the first chat still holds the turn.
C11_Witness ==
    /\ Len(updates) = 2
    /\ updates[1].kind = "text" /\ updates[2].kind = "clear"
    /\ updates[1].chat_id # updates[2].chat_id
    /\ 2 \in DOMAIN tasks
    /\ updates[1].chat_id \in DOMAIN conversations
    /\ conversations[updates[2].chat_id] = <<SystemTurn>>
    /\ Len(conversations[updates[1].chat_id]) >= 2
    /\ conversations[updates[1].chat_id][2] = Turn("user", updates[1].text)

\* C12: get_conversation_history on any chat of any reachable store returns
\* a history (it cannot fail); on a chat without an entry it creates the seed
\* sequence and touches no other entry; on a chat with an entry it returns
\* that entry and leaves the store as it is, so that a second and a third
\* consecutive call return the same sequence and change nothing.
C12_GetIdempotent ==
    \A c \in Chats :
        LET once == get_conversation_history(conversations, c)
            twice == get_conversation_history(once, c)
            thrice == get_conversation_history(twice, c)
        IN /\ c \in DOMAIN once
           /\ Len(once[c]) >= 1
           /\ c \in DOMAIN conversations => once = conversations
           /\ c \notin DOMAIN conversations
                => /\ once[c] = <<SystemTurn>>
                   /\ DOMAIN once = DOMAIN conversations \cup {c}
                   /\ \A d \in DOMAIN conversations : once[d] = conversations[d]
           /\ twice = once
           /\ thrice = once

\* A get created the entry of one chat, the other chat holds appended turns.
C12_Witness ==
    \E c, d \in Chats :
        /\ log[c] = <<Event("seed", 0, SystemTurn)>>
        /\ conversations[c] = <<SystemTurn>>
        /\ d \in DOMAIN conversations
        /\ Len(conversations[d]) >= 3

\* The results a task carries once an exception has left its handler.
HandlerErrors == {"typing_failed", "generate_failed", "reply_failed"}

\* update id's handler raised.
Failed(id) == id \in DOMAIN tasks /\ tasks[id].result \in HandlerErrors

\* C13 as stated: for every handler error the error reporter has made one
\* send attempt if ERROR_NOTIFICATIONS is set and none if it is not, and no
\* message of the failed update was sent to the chat that triggered it.
C13_ErrorReporter ==
    \A id \in DOMAIN tasks :
        Failed(id) =>
            /\ tasks[id].attempts = (IF CONFIG.ERROR_NOTIFICATIONS THEN 1 ELSE 0)
            /\ \A m \in SentFor(id) : m.chat_id # updates[id].chat_id

\* C13 amended: the error reporter never raises and touches no history. On
\* entry it makes one send attempt to ADMIN_USER_ID if ERROR_NOTIFICATIONS is
\* set and otherwise returns at once; when the attempt ends, accepted or
\* failed, the update is finished with no further attempt, and the only
\* message it can have sent is the error summary to ADMIN_USER_ID (which is
\* the triggering chat when the error arose in the administrator's own chat).
C13_ErrorReporterAmended ==
    [][\A id \in Stepped \cap DOMAIN tasks :
        /\ tasks[id].pc # "done"
        /\ tasks'[id].attempts <= 1
        /\ ~Failed(id) /\ tasks'[id].result \in HandlerErrors
            => /\ conversations' = conversations
               /\ outbox' = outbox
               /\ IF CONFIG.ERROR_NOTIFICATIONS
                  THEN tasks'[id].pc = "notifying" /\ tasks'[id].attempts = 1
                  ELSE tasks'[id].pc = "done" /\ tasks'[id].attempts = 0
        /\ Failed(id)
            => /\ tasks[id].pc = "notifying"
               /\ tasks'[id].pc = "done"
               /\ tasks'[id].attempts = 1
               /\ tasks'[id].result = tasks[id].result
               /\ conversations' = conversations
               /\ outbox' \ outbox \subseteq
                      {Sent(ADMIN_USER_ID, ErrorText(id), id)}
               /\ \A m \in SentFor(id)' :
                      m.chat_id = updates[id].chat_id
                          => m = Sent(ADMIN_USER_ID, ErrorText(id), id)]_vars

\* A reply in the group chat failed and the administrator was notified.
C13_Witness ==
    \E id \in DOMAIN tasks :
        /\ tasks[id].result = "reply_failed"
        /\ tasks[id].pc = "done"
        /\ tasks[id].attempts = 1
        /\ updates[id].chat_id # ADMIN_USER_ID
        /\ updates[id].kind = "text"
        /\ SentFor(id) = {Sent(ADMIN_USER_ID, ErrorText(id), id)}

\* The fixed reply of a /start or /help update.
FixedReply(id) ==
    IF updates[id].kind = "start" THEN WELCOME_MESSAGE
    ELSE <<"help", CONFIG.MAX_HISTORY>>

\* C14: every step of a /start or /help update leaves the history store as
\* it is (no entry changed, none created). The handler's first step issues
\* one reply request carrying the fixed text (for /help the text with
\* MAX_HISTORY substituted) and no later step issues another; when the
\* platform accepts it, that reply is the only message of the update.
C14_StartHelpChangeNoState ==
    [][\A id \in Stepped :
        updates[id].kind \in {"start", "help"}
        => /\ conversations' = conversations
           /\ log' = log
           /\ requests' = requests
           /\ id \notin DOMAIN tasks
                => /\ tasks'[id].pc = "replying"
                   /\ tasks'[id].reply = FixedReply(id)
                   /\ outbox' = outbox
           /\ id \in DOMAIN tasks
                => /\ tasks'[id].pc # "replying"
                   /\ tasks'[id].reply = tasks[id].reply
           /\ tasks'[id].result = "replied"
                => SentFor(id)' = {Sent(updates[id].chat_id, FixedReply(id), id)}]_vars

\* A /help was answered in a chat that has no history entry, before or after.
C14_Witness ==
    \E id \in DOMAIN tasks :
        /\ updates[id].kind = "help"
        /\ tasks[id].result = "replied"
        /\ updates[id].chat_id \notin DOMAIN conversations
        /\ CONFIG.MAX_HISTORY = 3
        /\ outbox = {Sent(updates[id].chat_id, <<"help", 3>>, id)}

\* C15: a freeform message whose typing indicator failed still runs its
\* flow: it does not end as a handler error, and once its handler has
\* returned the user turn and the assistant turn were appended and the
\* completion was requested.
C15_TypingBestEffort ==
    \A id \in DOMAIN tasks :
        tasks[id].typing = "failed"
        => /\ tasks[id].result # "typing_failed"
           /\ tasks[id].pc = "done"
                => /\ id \in DOMAIN requests
                   /\ AppendsBy(id, "user") # {}
                   /\ AppendsBy(id, "assistant") # {}

\* One of the three required environment variables is unset.
SecretAbsent ==
    \/ env.TELEGRAM_BOT_TOKEN = "None"
    \/ env.OPENAI_API_KEY = "None"
    \/ env.ADMIN_USER_ID = "None"

\* C16: with a secret absent the process never serves: it is importing or
\* has exited, and the serving state is reached only with all three secrets
\* present. Before the serving state no update was received, no handler ran,
\* nothing was sent and the store is empty.
C16_StartupFatal ==
    /\ SecretAbsent => phase \in {"import", "exited"}
    /\ phase = "running" => ~SecretAbsent
    /\ phase # "running"
        => /\ updates = <<>> /\ update_queue = <<>> /\ tasks = <<>>
           /\ outbox = {} /\ conversations = <<>> /\ requests = <<>>

\* Startup ended the process because only the administrator identity is unset.
C16_Witness ==
    /\ phase = "exited"
    /\ env.TELEGRAM_BOT_TOKEN # "None"
    /\ env.OPENAI_API_KEY # "None"
    /\ env.ADMIN_USER_ID = "None"

\* The content of the assistant turns update id appended.
AssistantContents(id) ==
    LET A == Appends(updates[id].chat_id)
    IN {A[i].turn.content : i \in AppendsBy(id, "assistant")}

\* The replies sent for update id (not the error reporter's summary).
RepliesFor(id) == {m \in SentFor(id) : m.text # ErrorText(id)}

C18_RequestIsCurrentWindow ==
    CONFIG.MAX_HISTORY >= 1
    => \A id \in DOMAIN requests :
        LET messages == requests[id]
            chat_id == updates[id].chat_id
        IN /\ Len(messages) >= 2
           /\ Len(messages) <= CONFIG.MAX_HISTORY + 1
           /\ messages[1] = SystemTurn
           /\ messages[Len(messages)] = Turn("user", updates[id].text)
           /\ \A i \in 2..Len(messages) : messages[i] # SystemTurn
           /\ tasks[id].pc \in {"generating", "hung"}
                => messages = conversations[chat_id]

\* With MAX_HISTORY 1 the second message of a chat is sent to the completion
\* client as the system turn and its own user turn: the first exchange was
\* evicted.
C18_Witness ==
    /\ CONFIG.MAX_HISTORY = 1
    /\ 2 \in DOMAIN requests
    /\ Replied(1)
    /\ updates[1].kind = "text"
    /\ updates[1].chat_id = updates[2].chat_id
    /\ tasks[2].pc = "generating"
    /\ requests[2] = <<SystemTurn, Turn("user", updates[2].text)>>

\* The freeform flows whose reply was refused and after whose assistant
\* append nothing more happened to the chat.
LastFailedReply(id) ==
    /\ id \in DOMAIN tasks
    /\ updates[id].kind = "text"
    /\ tasks[id].result = "reply_failed"
    /\ LET L == log[updates[id].chat_id]
       IN L # <<>> /\ L[Len(L)].id = id

\* C19: after the reply of a freeform flow was refused, the turns the flow
\* appended are still the newest turns of the chat's history (the assistant
\* turn last, the user turn before it when the window holds two turns), the
\* history keeps the length bound of C1 and the pinned system turn of C2, and
\* the failed flow holds the dispatcher no longer than its error report.
C19_NoRollback ==
    \A id \in DOMAIN tasks :
        /\ tasks[id].result = "reply_failed"
            => tasks[id].pc \in {"notifying", "done"}
        /\ LastFailedReply(id)
            => LET history == conversations[updates[id].chat_id]
                   n == Len(history)
               IN /\ history[n] = Turn("assistant", tasks[id].ai_response)
                  /\ CONFIG.MAX_HISTORY # 1
                        => history[n - 1] = Turn("user", updates[id].text)
                  /\ CONFIG.MAX_HISTORY >= 1 => n <= CONFIG.MAX_HISTORY + 1
                  /\ history[1] = SystemTurn
                  /\ \A i \in 2..n : history[i].role # "system"

\* The statement of C19 restricted to windows W >= 1.
C19_HoldsForPositiveWindow ==
    CONFIG.MAX_HISTORY >= 1 => C19_NoRollback

\* C20: with MAX_HISTORY = 0 every stored history is the seed sequence, the
\* system turn alone, also after appends.
C20_DegenerateWindow ==
    CONFIG.MAX_HISTORY = 0
    => \A c \in DOMAIN conversations : conversations[c] = <<SystemTurn>>

====
